---- MODULE Spec2Model ----
(***************************************************************************)
(* trafsys-data-transfer (script.js): a script that pulls hourly traffic   *)
(* records from the TrafSys REST API and upserts them into the Oracle      *)
(* table ULS_TRAFSYS_DATA, keeping a log of its runs in an nedb datastore. *)
(*                                                                         *)
(* One process is one execution of script.js.  The model runs processes    *)
(* one after the other; the datastore file (store) and the Oracle table    *)
(* (table) survive from one process to the next, everything else is        *)
(* per-process.  Each action is one segment of run() between two awaits,   *)
(* with the answer of the awaited collaborator chosen by \E.               *)
(*                                                                         *)
(* Time is in minutes.  Calendar dates are day numbers (the YYYY-MM-DD     *)
(* string of a day is determined by the day and determines it).            *)
(***************************************************************************)
EXTENDS Integers, Sequences, FiniteSets, TLC

VARIABLES
    clock,          \* wall clock, minutes
    store,          \* logs.db: the documents of the nedb datastore, in append order
    tableExists,    \* ULS_TRAFSYS_DATA exists in the Oracle schema
    table,          \* committed rows of ULS_TRAFSYS_DATA
    runs,           \* processes started so far
    pc,             \* position of the current process in run()
    env,            \* TRUE iff the five required environment variables are set
    argv,           \* [from, to]: the --from / --to options given, <<>> when absent
    yesterday,      \* const yesterday, computed when the script is loaded
    connection,     \* let connection: "none" (undefined), "open", "closed"
    work,           \* rows as seen through the connection (uncommitted included)
    previousRun,    \* getRunInfo's previousRun: <<>> for null, else <<document>>
    runInfo,        \* the RunInfo object of the current run
    trafsysData,    \* let trafsysData
    appendStatus,   \* logsDb.insert(runInfo): "none", "pending", "done", "failed"
    thrown,         \* the error the failing call raised ("none" if none)
    reported,       \* what console.error printed ("none" if nothing)
    exitCode,       \* exit code of the process, once pc is "exited"
    calls,          \* per-process counters of the calls made
    store0,         \* the datastore as it was when the process started
    lastRun,        \* how the previous process ended, and the datastore it started from
    rejected,       \* the promise of run() was rejected (nothing handles it)
    table0,         \* the committed rows before the latest insertData
    firstWritten,   \* per primary key: IsInternal of the record that inserted the row
    lastApplied,    \* per primary key: Ins, Outs of the latest committed record
    sessions        \* the database sessions of processes that run at the same time

vars == <<clock, store, tableExists, table, runs, pc, env, argv, yesterday,
          connection, work, previousRun, runInfo, trafsysData, appendStatus, thrown,
          reported, exitCode, calls, store0, lastRun, rejected, table0, firstWritten,
          lastApplied, sessions>>

(***************************************************************************)
(* Bounds of the model.                                                    *)
(***************************************************************************)
MaxRuns == 2
MaxBatch == 2

(***************************************************************************)
(* Traffic records and the sink table.                                     *)
(***************************************************************************)
SiteCodes == {"LIB"}
Locations == {"Front", "Back"}

InvalidDate == "ORA-01858"

\* TO_DATE(:PeriodEnding, 'YYYY-MM-DD"T"HH24:MI:SS'): the Oracle DATE of the
\* string (without FX the leading zeros may be missing), or an error.
TO_DATE(s) ==
    CASE s = "2020-01-05T10:00:00" -> "2020-01-05 10:00:00"
      [] s = "2020-1-5T10:00:00"   -> "2020-01-05 10:00:00"
      [] OTHER                     -> InvalidDate

\* The Ins/Outs pairs the counters report.
Counts == {<<1, 3>>, <<2, 4>>}

DataRecord(l, i, p, c) ==
    [SiteCode |-> "LIB", Location |-> l, IsInternal |-> i, PeriodEnding |-> p,
     Ins |-> c[1], Outs |-> c[2]]

\* DataRecord: the records insertData is given (IsInternal already 0/1):
\* every location, IsInternal and counts for one hour, one of them also with
\* the hour spelled without leading zeros, and one whose hour is no date.
DataRecords ==
    {DataRecord(l, i, "2020-01-05T10:00:00", c) : l \in Locations, i \in {0, 1}, c \in Counts}
    \cup {DataRecord("Front", 0, "2020-1-5T10:00:00", <<2, 4>>),
          DataRecord("Back", 1, "n/a", <<1, 3>>)}

RECURSIVE SeqsUpTo(_, _)
SeqsUpTo(S, n) ==
    IF n = 0 THEN {<<>>}
    ELSE LET shorter == SeqsUpTo(S, n - 1)
         IN  shorter \cup {Append(q, x) : q \in {p \in shorter : Len(p) = n - 1}, x \in S}

Batches == SeqsUpTo(DataRecords, MaxBatch)

\* primary key(SiteCode, Location, PeriodEnding)
PrimaryKey(row) == <<row.SiteCode, row.Location, row.PeriodEnding>>

\* The row the insert statement builds from the binds of one record.
InsertedRow(r) ==
    [SiteCode |-> r.SiteCode, Location |-> r.Location, IsInternal |-> r.IsInternal,
     PeriodEnding |-> TO_DATE(r.PeriodEnding), Ins |-> r.Ins, Outs |-> r.Outs]

\* update ULS_TRAFSYS_DATA set Ins = :Ins, Outs = :Outs where <key of r>
UpdateCounts_Sum(rows, r) ==
    {IF PrimaryKey(row) = PrimaryKey(InsertedRow(r))
     THEN [row EXCEPT !.Ins = row.Ins + r.Ins, !.Outs = row.Outs + r.Outs]
     ELSE row : row \in rows}

UpdateCounts_All(rows, r) ==
    {IF PrimaryKey(row) = PrimaryKey(InsertedRow(r))
     THEN InsertedRow(r)
     ELSE row : row \in rows}

UpdateCounts(rows, r) ==
    {IF PrimaryKey(row) = PrimaryKey(InsertedRow(r))
     THEN [row EXCEPT !.Ins = r.Ins, !.Outs = r.Outs]
     ELSE row : row \in rows}

PlsqlBlock_NoHandler(rows, r) ==
    IF TO_DATE(r.PeriodEnding) = InvalidDate
    THEN [ok |-> FALSE, rows |-> rows]
    ELSE IF \E row \in rows : PrimaryKey(row) = PrimaryKey(InsertedRow(r))
         THEN [ok |-> FALSE, rows |-> rows]
         ELSE [ok |-> TRUE, rows |-> rows \cup {InsertedRow(r)}]

\* One execution of the PL/SQL block: insert; when dup_val_on_index, update.
\* Any other error of the insert (here: TO_DATE fails) leaves the block.
PlsqlBlock(rows, r) ==
    IF TO_DATE(r.PeriodEnding) = InvalidDate
    THEN [ok |-> FALSE, rows |-> rows]
    ELSE IF \E row \in rows : PrimaryKey(row) = PrimaryKey(InsertedRow(r))
         THEN [ok |-> TRUE, rows |-> UpdateCounts(rows, r)]
         ELSE [ok |-> TRUE, rows |-> rows \cup {InsertedRow(r)}]

\* connection.executeMany(block, data): the block once per record, in order,
\* stopping at the first record whose block raises.
RECURSIVE ExecuteMany(_, _)
ExecuteMany(rows, data) ==
    IF data = <<>> THEN [ok |-> TRUE, rows |-> rows]
    ELSE LET one == PlsqlBlock(rows, Head(data))
         IN  IF one.ok THEN ExecuteMany(one.rows, Tail(data)) ELSE one

\* insertData(connection, data): nothing at all for an empty batch, else one
\* executeMany.  executed tells whether the database was called.
InsertDataResult_Always(rows, data) ==
    LET res == ExecuteMany(rows, data)
    IN  [ok |-> res.ok, rows |-> res.rows, executed |-> TRUE]

InsertDataResult(rows, data) ==
    IF Len(data) = 0
    THEN [ok |-> TRUE, rows |-> rows, executed |-> FALSE]
    ELSE LET res == ExecuteMany(rows, data)
         IN  [ok |-> res.ok, rows |-> res.rows, executed |-> TRUE]

AutoCommitted_EachRecord(rows, res) == res.rows

\* autoCommit: true (line 199): the committed rows after executeMany gave
\* res on committed rows: the batch is committed when it succeeded as a
\* whole, and what a failed batch wrote stays uncommitted.
AutoCommitted(rows, res) == IF res.ok THEN res.rows ELSE rows

\* The rows committed once insertData has returned or thrown and the
\* connection is closed: autoCommit commits a batch that succeeded; what a
\* failed batch wrote is uncommitted and is rolled back by the close.
CommittedRows(rows, data) == AutoCommitted(rows, InsertDataResult(rows, data))

(***************************************************************************)
(* Book-keeping of what was written, per primary key of the table.         *)
(***************************************************************************)
DbKeys ==
    {PrimaryKey(InsertedRow(r)) : r \in {x \in DataRecords : TO_DATE(x.PeriodEnding) # InvalidDate}}

KeyOf(r) == PrimaryKey(InsertedRow(r))

Positions(data, k) == {i \in 1..Len(data) : KeyOf(data[i]) = k}

Min(S) == CHOOSE x \in S : \A y \in S : x <= y
Max(S) == CHOOSE x \in S : \A y \in S : x >= y

\* IsInternal as written by the record that inserted the row of key k.
NoteFirst(first, data) ==
    [k \in DbKeys |->
        IF first[k] # <<>> \/ Positions(data, k) = {} THEN first[k]
        ELSE <<data[Min(Positions(data, k))].IsInternal>>]

\* Ins and Outs of the latest committed record of key k.
NoteLast(last, data) ==
    [k \in DbKeys |->
        IF Positions(data, k) = {} THEN last[k]
        ELSE LET r == data[Max(Positions(data, k))] IN <<r.Ins, r.Outs>>]

(***************************************************************************)
(* Clock, dates, tokens.                                                   *)
(***************************************************************************)
MinutesPerDay == 24 * 60

\* The calendar day of an instant.
Day(t) == t \div MinutesPerDay

yesterdayDateString_Today(t) == Day(t)

\* yesterdayDateString(): today's date moved back one day.
yesterdayDateString(t) == Day(t) - 1

\* How long after a process started the next one may start, and the
\* lifetimes of the tokens the authentication endpoint hands out (minutes).
Elapsed == {4, MinutesPerDay}
Lifetimes == {6, 10}

\* The dates given with --from and --to, when they are given.
Options ==
    { [from |-> <<>>, to |-> <<>>], [from |-> <<1>>, to |-> <<>>], [from |-> <<1>>, to |-> <<2>>] }

\* nowish.offsetInHours(-1/12): five minutes.
WiggleMinutes == 5

\* Lines 38-43: the stored token is kept when its expiry is later than
\* nowish, the present moved BACK by five minutes.
TokenStillValid_Never(doc, now) == FALSE

TokenStillValid(doc, now) == doc.AccessTokenExpiresAt > now - WiggleMinutes

\* logsDb.findOne({}).sort({ createdAt: -1 }).limit(1)
MostRecent(docs) ==
    IF docs = <<>> THEN <<>>
    ELSE <<CHOOSE d \in {docs[i] : i \in 1..Len(docs)} :
              \A i \in 1..Len(docs) : docs[i].createdAt <= d.createdAt>>

\* let currentRun = {}: AccessToken 0 stands for undefined, Records <<>> too.
EmptyRunInfo ==
    [AccessToken |-> 0, AccessTokenExpiresAt |-> 0, FromDate |-> 0, ToDate |-> 0,
     Records |-> <<>>]

\* Lines 36-47: currentRun after the look at the previous run.
ReusedToken(prev, now) ==
    IF prev # <<>> /\ TokenStillValid(prev[1], now)
    THEN [EmptyRunInfo EXCEPT !.AccessToken = prev[1].AccessToken,
                              !.AccessTokenExpiresAt = prev[1].AccessTokenExpiresAt]
    ELSE EmptyRunInfo

\* Lines 53-59: the defaults of the two options and what program.opts() gives.
\* A stored ToDate is a YYYY-MM-DD string, never the empty string, so
\* previousRun?.ToDate || yesterday is the ToDate whenever there is a
\* previous run.
DefaultFrom_Yesterday(prev, yday) == yday

DefaultFrom(prev, yday) == IF prev # <<>> THEN prev[1].ToDate ELSE yday

ParseOptions(info, args, prev, yday) ==
    [info EXCEPT !.FromDate = IF args.from # <<>> THEN args.from[1] ELSE DefaultFrom(prev, yday),
                 !.ToDate   = IF args.to # <<>> THEN args.to[1] ELSE yday]

\* tokenResponse.data of a successful POST to the token endpoint: a token no
\* earlier answer carried (the n-th process's k-th request gets token 2n+k-1)
\* and the instant it expires.
TokenResponse(n, c, now, life) ==
    [access_token |-> 2 * n + c.auth + c.reauth - 1, expires |-> now + life]

\* tokenData of getAccessToken() put into the run info (lines 50-51, 243-244).
WithToken(info, tokenData) ==
    [info EXCEPT !.AccessToken = tokenData.access_token,
                 !.AccessTokenExpiresAt = tokenData.expires]

(***************************************************************************)
(* The remote data endpoint.                                               *)
(***************************************************************************)
\* Bodies of a 200 answer: records with IsInternal as a JSON boolean.
ApiRecord(l, b, p, c) ==
    [SiteCode |-> "LIB", Location |-> l, IsInternal |-> b, PeriodEnding |-> p,
     Ins |-> c[1], Outs |-> c[2]]

ApiBodies ==
    { <<>>,
      <<ApiRecord("Front", TRUE, "2020-01-05T10:00:00", <<1, 3>>),
        ApiRecord("Front", FALSE, "2020-1-5T10:00:00", <<2, 4>>)>>,
      <<ApiRecord("Back", TRUE, "2020-01-05T10:00:00", <<2, 4>>),
        ApiRecord("Front", TRUE, "n/a", <<1, 3>>)>> }

\* record.IsInternal = +record.IsInternal
Normalize(body) ==
    [i \in 1..Len(body) |-> [body[i] EXCEPT !.IsInternal = IF body[i].IsInternal THEN 1 ELSE 0]]

\* What a fetch can end with besides a 200: a 401, another HTTP status, no
\* answer at all, a body that cannot be iterated.
FetchErrors == {"Http401", "Http403", "Http500", "NetworkError", "BodyNotIterable"}

\* e.isAxiosError / e.response of the errors above.
IsAxiosError(e) == e \in {"Http401", "Http403", "Http500", "NetworkError"}
HasResponse(e) == e \in {"Http401", "Http403", "Http500"}

OnFetchError_AnyStatus(e) ==
    IF IsAxiosError(e)
    THEN IF ~HasResponse(e) THEN "TypeError" ELSE "recover"
    ELSE e

\* Lines 239-248: what the catch around the first fetch does with e:
\* "recover", or the error that leaves the catch.
OnFetchError(e) ==
    IF IsAxiosError(e)
    THEN IF ~HasResponse(e) THEN "TypeError"        \* e.response.status of undefined
         ELSE IF e = "Http401" THEN "recover" ELSE e
    ELSE e

(***************************************************************************)
(* The process: script.js from its first line to its exit.                 *)
(***************************************************************************)
\* The calls a process has made so far; sent lists its fetch requests, each
\* with the answer it got ("ok" for a 200).
NoCalls ==
    [auth |-> 0, reauth |-> 0, fetch |-> 0, unauthorized |-> 0, executeMany |-> 0,
     wait |-> 0, close |-> 0, insert |-> 0, getConnection |-> 0, loadDatabase |-> 0,
     sent |-> <<>>]

\* What getTrafsysData(info) sends (lines 142-152), with the answer.
Request(info, answer) ==
    [AccessToken |-> info.AccessToken, DateFrom |-> info.FromDate,
     DateTo |-> info.ToDate, answer |-> answer]

FirstInstant == 5 * MinutesPerDay + 600

NoKeys == [k \in DbKeys |-> <<>>]

Init ==
    /\ clock = FirstInstant
    /\ store = <<>>
    /\ tableExists = FALSE
    /\ table = {}
    /\ runs = 0
    /\ pc = "idle"
    /\ env = TRUE
    /\ argv = [from |-> <<>>, to |-> <<>>]
    /\ yesterday = yesterdayDateString(FirstInstant)
    /\ connection = "none"
    /\ work = {}
    /\ previousRun = <<>>
    /\ runInfo = EmptyRunInfo
    /\ trafsysData = <<>>
    /\ appendStatus = "none"
    /\ thrown = "none"
    /\ reported = "none"
    /\ exitCode = 0
    /\ calls = NoCalls
    /\ store0 = <<>>
    /\ lastRun = [ran |-> FALSE, failed |-> FALSE, store0 |-> <<>>]
    /\ rejected = FALSE
    /\ table0 = {}
    /\ firstWritten = NoKeys
    /\ lastApplied = NoKeys
    /\ sessions = <<>>

\* Nothing of the sink table or its book-keeping changes.
SinkUnchanged ==
    UNCHANGED <<tableExists, table, work, table0, firstWritten, lastApplied, sessions>>

Catch_RetryAgain(e, rep, conn) ==
    IF e = "Http401"
    THEN pc' = "waitASecond" /\ UNCHANGED <<thrown, reported>>
    ELSE /\ thrown' = e
         /\ reported' = rep
         /\ pc' = IF conn = "open" THEN "closing" ELSE "exited"

Catch_NoFinally(e, rep, conn) ==
    /\ thrown' = e
    /\ reported' = rep
    /\ pc' = "exited"

\* Lines 253-260 entered with error e caught: console.error(rep), then the
\* finally block, which has a connection to close or has not; without one
\* run() is over and, nothing being queued, the process ends with code 0.
Catch(e, rep, conn) ==
    /\ thrown' = e
    /\ reported' = rep
    /\ pc' = IF conn = "open" THEN "closing" ELSE "exited"

CheckEnv_Skipped(e) == "getConnection"

\* checkEnv(), lines 85-97, called first thing in run(): where the process
\* is afterwards.  process.exit() is reached in the first tick of the event
\* loop, before anything queued by lines 10-11 or by run() could start.
CheckEnv(e) == IF e THEN "getConnection" ELSE "exited"

\* node script.js [--from f] [--to t], dt minutes after the previous start:
\* lines 1-13 (the datastore object, whose load is queued; yesterday), 263
\* and 224 (checkEnv).
StartProcess(e, args, dt) ==
    /\ pc \in {"idle", "exited"}
    /\ runs < MaxRuns
    /\ runs' = runs + 1
    /\ clock' = clock + dt
    /\ env' = e
    /\ argv' = args
    /\ yesterday' = yesterdayDateString(clock')
    /\ lastRun' = IF pc = "idle" THEN lastRun
                  ELSE [ran |-> TRUE, failed |-> thrown # "none", store0 |-> store0]
    /\ store0' = store
    /\ connection' = "none"
    /\ previousRun' = <<>>
    /\ runInfo' = EmptyRunInfo
    /\ trafsysData' = <<>>
    /\ appendStatus' = "none"
    /\ thrown' = "none"
    /\ rejected' = FALSE
    /\ calls' = NoCalls
    /\ exitCode' = 0
    /\ pc' = CheckEnv(e)
    /\ reported' = IF e THEN "none"
                   ELSE "MissingEnv"   \* console.error(...); process.exit() without a code
    /\ UNCHANGED store
    /\ SinkUnchanged

\* Line 227: await oracledb.getConnection(...).  It is the first await of
\* the process: the load of logs.db queued by line 10 is carried out by the
\* event loop while run() waits here.
GetConnection(ok) ==
    /\ pc = "getConnection"
    /\ calls' = [calls EXCEPT !.getConnection = @ + 1, !.loadDatabase = 1]
    /\ IF ok THEN /\ connection' = "open"
                  /\ work' = table
                  /\ pc' = "ensureTableExists"
                  /\ UNCHANGED <<thrown, reported>>
             ELSE /\ Catch("ConnectError", "ConnectError", connection)
                  /\ UNCHANGED <<connection, work>>
    /\ UNCHANGED <<clock, store, tableExists, table, runs, env, argv, yesterday,
                   previousRun, runInfo, trafsysData, appendStatus, exitCode,
                   store0, lastRun, rejected, table0, firstWritten, lastApplied, sessions>>

\* Line 232: await ensureTableExists(connection)
EnsureTableExists(ok) ==
    /\ pc = "ensureTableExists"
    /\ IF ok THEN /\ tableExists' = TRUE
                  /\ pc' = "findPrevious"
                  /\ UNCHANGED <<thrown, reported>>
             ELSE /\ Catch("DbError", "DbError", connection)
                  /\ UNCHANGED tableExists
    /\ UNCHANGED <<clock, store, table, runs, env, argv, yesterday, connection,
                   work, previousRun, runInfo, trafsysData, appendStatus, exitCode, calls,
                   store0, lastRun, rejected, table0, firstWritten, lastApplied, sessions>>

\* getRunInfo, lines 35-48 (and 53-60 when the stored token is kept).
FindPrevious(ok) ==
    /\ pc = "findPrevious"
    /\ IF ok
       THEN LET prev == MostRecent(store)
                cur  == ReusedToken(prev, clock)
            IN  /\ previousRun' = prev
                /\ IF cur.AccessToken = 0
                   THEN /\ runInfo' = cur
                        /\ pc' = "getAccessToken"
                   ELSE /\ runInfo' = ParseOptions(cur, argv, prev, yesterday)
                        /\ pc' = "fetch"
                /\ UNCHANGED <<thrown, reported>>
       ELSE /\ Catch("StoreError", "StoreError", connection)
            /\ UNCHANGED <<previousRun, runInfo>>
    /\ UNCHANGED <<clock, store, runs, env, argv, yesterday, connection,
                   trafsysData, appendStatus, exitCode, calls, store0, lastRun, rejected>>
    /\ SinkUnchanged

\* getRunInfo, lines 49-60: await getAccessToken(), then the options.
GetAccessToken(ok, life) ==
    /\ pc = "getAccessToken"
    /\ calls' = [calls EXCEPT !.auth = @ + 1]
    /\ IF ok
       THEN /\ runInfo' = ParseOptions(
                              WithToken(runInfo, TokenResponse(runs, calls', clock, life)),
                              argv, previousRun, yesterday)
            /\ pc' = "fetch"
            /\ UNCHANGED <<thrown, reported>>
       ELSE /\ Catch("AuthError", "AuthError", connection)
            /\ UNCHANGED runInfo
    /\ UNCHANGED <<clock, store, runs, env, argv, yesterday, connection, previousRun,
                   trafsysData, appendStatus, exitCode, store0, lastRun, rejected>>
    /\ SinkUnchanged

Fetched_NoRecords(body) ==
    /\ trafsysData' = Normalize(body)
    /\ runInfo' = runInfo
    /\ pc' = "insertData"
    /\ UNCHANGED <<thrown, reported>>

\* getTrafsysData(runInfo) answered 200 with body: lines 154-160.
Fetched(body) ==
    /\ trafsysData' = Normalize(body)
    /\ runInfo' = [runInfo EXCEPT !.Records = <<Len(body)>>]
    /\ pc' = "insertData"
    /\ UNCHANGED <<thrown, reported>>

AfterUnauthorized_NoWait == "reauth"

\* Lines 239-241: what the inner catch does first with a 401.
AfterUnauthorized == "waitASecond"

\* Lines 236-249: the first fetch and the catch around it.
Fetch(ok, body, e) ==
    /\ pc = "fetch"
    /\ IF ok
       THEN /\ Fetched(body)
            /\ calls' = [calls EXCEPT !.fetch = @ + 1,
                                      !.sent = Append(@, Request(runInfo, "ok"))]
       ELSE /\ UNCHANGED <<trafsysData, runInfo>>
            /\ IF OnFetchError(e) = "recover"
               THEN /\ pc' = AfterUnauthorized
                    /\ calls' = [calls EXCEPT !.fetch = @ + 1, !.unauthorized = @ + 1,
                                              !.sent = Append(@, Request(runInfo, e))]
                    /\ UNCHANGED <<thrown, reported>>
               ELSE /\ Catch(e, OnFetchError(e), connection)
                    /\ calls' = [calls EXCEPT !.fetch = @ + 1,
                                              !.sent = Append(@, Request(runInfo, e))]
    /\ UNCHANGED <<clock, store, runs, env, argv, yesterday, connection,
                   previousRun, appendStatus, exitCode, store0, lastRun, rejected>>
    /\ SinkUnchanged

\* Line 241: await waitASecond()
WaitASecond ==
    /\ pc = "waitASecond"
    /\ pc' = "reauth"
    /\ calls' = [calls EXCEPT !.wait = @ + 1]
    /\ UNCHANGED <<clock, store, runs, env, argv, yesterday, connection,
                   previousRun, runInfo, trafsysData, appendStatus, thrown, reported,
                   exitCode, store0, lastRun, rejected>>
    /\ SinkUnchanged

\* Lines 242-244: the new token after a 401.
Reauth(ok, life) ==
    /\ pc = "reauth"
    /\ calls' = [calls EXCEPT !.reauth = @ + 1]
    /\ IF ok
       THEN /\ runInfo' = WithToken(runInfo, TokenResponse(runs, calls', clock, life))
            /\ pc' = "retryFetch"
            /\ UNCHANGED <<thrown, reported>>
       ELSE /\ Catch("AuthError", "AuthError", connection)
            /\ UNCHANGED runInfo
    /\ UNCHANGED <<clock, store, runs, env, argv, yesterday, connection, previousRun,
                   trafsysData, appendStatus, exitCode, store0, lastRun, rejected>>
    /\ SinkUnchanged

\* Line 245: the second fetch; whatever it throws leaves the inner catch.
RetryFetch(ok, body, e) ==
    /\ pc = "retryFetch"
    /\ IF ok
       THEN /\ Fetched(body)
            /\ calls' = [calls EXCEPT !.fetch = @ + 1,
                                      !.sent = Append(@, Request(runInfo, "ok"))]
       ELSE /\ UNCHANGED <<trafsysData, runInfo>>
            /\ Catch(e, e, connection)
            /\ calls' = [calls EXCEPT !.fetch = @ + 1,
                                      !.unauthorized = @ + (IF e = "Http401" THEN 1 ELSE 0),
                                      !.sent = Append(@, Request(runInfo, e))]
    /\ UNCHANGED <<clock, store, runs, env, argv, yesterday, connection,
                   previousRun, appendStatus, exitCode, store0, lastRun, rejected>>
    /\ SinkUnchanged

InsertData_LogFirst ==
    /\ pc = "insertData"
    /\ LET res == InsertDataResult(work, trafsysData)
       IN  /\ calls' = [calls EXCEPT !.executeMany = @ + (IF res.executed THEN 1 ELSE 0),
                                     !.insert = @ + 1]
           /\ work' = res.rows
           /\ table0' = table
           /\ appendStatus' = "pending"
           /\ IF res.ok
              THEN /\ table' = res.rows
                   /\ firstWritten' = NoteFirst(firstWritten, trafsysData)
                   /\ lastApplied' = NoteLast(lastApplied, trafsysData)
                   /\ pc' = "closing"
                   /\ UNCHANGED <<thrown, reported>>
              ELSE /\ Catch("DbError", "DbError", connection)
                   /\ UNCHANGED <<table, firstWritten, lastApplied>>
    /\ UNCHANGED <<clock, store, tableExists, runs, env, argv, yesterday,
                   connection, previousRun, runInfo, trafsysData, exitCode, store0,
                   lastRun, rejected, sessions>>

\* Lines 250-251: await insertData(connection, trafsysData), then
\* logsDb.insert(runInfo), which is not awaited and is given no callback.
InsertData ==
    /\ pc = "insertData"
    /\ LET res == InsertDataResult(work, trafsysData)
       IN  /\ calls' = [calls EXCEPT !.executeMany = @ + (IF res.executed THEN 1 ELSE 0),
                                     !.insert = @ + (IF res.ok THEN 1 ELSE 0)]
           /\ work' = res.rows
           /\ table0' = table
           /\ table' = AutoCommitted(table, res)
           /\ IF res.ok
              THEN /\ firstWritten' = NoteFirst(firstWritten, trafsysData)
                   /\ lastApplied' = NoteLast(lastApplied, trafsysData)
                   /\ appendStatus' = "pending"
                   /\ pc' = "closing"
                   /\ UNCHANGED <<thrown, reported>>
              ELSE /\ Catch("DbError", "DbError", connection)
                   /\ UNCHANGED <<firstWritten, lastApplied, appendStatus>>
    /\ UNCHANGED <<clock, store, tableExists, runs, env, argv, yesterday,
                   connection, previousRun, runInfo, trafsysData, exitCode, store0,
                   lastRun, rejected, sessions>>

\* nedb carries out the insert queued by line 251: the document gets its
\* createdAt and is appended to logs.db, or the error goes to the callback
\* nobody gave.  When run() is over already, the process then ends, code 0.
LogsDbInsert(ok) ==
    /\ appendStatus = "pending"
    /\ pc \in {"closing", "draining"}
    /\ pc' = IF pc = "draining" THEN "exited" ELSE pc
    /\ IF ok
       THEN /\ store' = Append(store, [AccessToken |-> runInfo.AccessToken,
                                       AccessTokenExpiresAt |-> runInfo.AccessTokenExpiresAt,
                                       FromDate |-> runInfo.FromDate,
                                       ToDate |-> runInfo.ToDate,
                                       Records |-> runInfo.Records,
                                       createdAt |-> clock])
            /\ appendStatus' = "done"
       ELSE /\ store' = store
            /\ appendStatus' = "failed"
    /\ UNCHANGED <<clock, runs, env, argv, yesterday, connection, previousRun,
                   runInfo, trafsysData, thrown, reported, exitCode, calls, store0,
                   lastRun, rejected>>
    /\ SinkUnchanged

\* Lines 257-259: await connection.close().  Closing rolls back what the
\* connection has not committed.  run() is over then: the process ends with
\* code 0 as soon as the datastore has nothing queued.  When the close fails
\* the promise of run() is rejected and nothing handles it: Node either ends
\* the process at once with code 1 (crash), whatever is queued, or prints a
\* warning and goes on.
CloseConnection(ok, crash) ==
    /\ pc = "closing"
    /\ calls' = [calls EXCEPT !.close = @ + 1]
    /\ connection' = "closed"
    /\ work' = table
    /\ rejected' = ~ok
    /\ IF ~ok /\ crash
       THEN /\ pc' = "exited"
            /\ exitCode' = 1
            /\ appendStatus' = IF appendStatus = "pending" THEN "lost" ELSE appendStatus
       ELSE /\ pc' = IF appendStatus = "pending" THEN "draining" ELSE "exited"
            /\ UNCHANGED <<exitCode, appendStatus>>
    /\ UNCHANGED <<clock, store, tableExists, table, runs, env, argv, yesterday,
                   previousRun, runInfo, trafsysData, thrown, reported, store0, lastRun,
                   table0, firstWritten, lastApplied, sessions>>

Next ==
    \/ \E e \in BOOLEAN, args \in Options, dt \in Elapsed : StartProcess(e, args, dt)
    \/ \E ok \in BOOLEAN : GetConnection(ok)
    \/ \E ok \in BOOLEAN : EnsureTableExists(ok)
    \/ \E ok \in BOOLEAN : FindPrevious(ok)
    \/ \E ok \in BOOLEAN, life \in Lifetimes : GetAccessToken(ok, life)
    \/ \E body \in ApiBodies : Fetch(TRUE, body, "none")
    \/ \E e \in FetchErrors : Fetch(FALSE, <<>>, e)
    \/ WaitASecond
    \/ \E ok \in BOOLEAN, life \in Lifetimes : Reauth(ok, life)
    \/ \E body \in ApiBodies : RetryFetch(TRUE, body, "none")
    \/ \E e \in FetchErrors : RetryFetch(FALSE, <<>>, e)
    \/ InsertData
    \/ \E ok \in BOOLEAN : LogsDbInsert(ok)
    \/ CloseConnection(TRUE, FALSE)
    \/ \E crash \in BOOLEAN : CloseConnection(FALSE, crash)

Spec == Init /\ [][Next]_vars

\* Every awaited call is answered and the event loop runs what is queued: a
\* process that can take a step takes one.
SpecLive == Spec /\ WF_vars(Next)

(***************************************************************************)
(* The upsert on its own: any batch, one after the other, each through     *)
(* insertData on a fresh connection that is closed afterwards (lines 250   *)
(* and 257-259), starting from the empty table.                            *)
(***************************************************************************)
UpsertBatch(data) ==
    /\ pc = "idle"
    /\ table0' = table
    /\ table' = CommittedRows(table, data)
    /\ work' = table'
    /\ tableExists' = TRUE
    /\ IF InsertDataResult(table, data).ok
       THEN /\ firstWritten' = NoteFirst(firstWritten, data)
            /\ lastApplied' = NoteLast(lastApplied, data)
       ELSE UNCHANGED <<firstWritten, lastApplied>>
    /\ UNCHANGED <<clock, store, runs, pc, env, argv, yesterday, connection, previousRun,
                   runInfo, trafsysData, appendStatus, thrown, reported, exitCode, calls,
                   store0, lastRun, rejected, sessions>>

NextUpsert == \E data \in Batches : UpsertBatch(data)

SpecUpsert == Init /\ [][NextUpsert]_vars

(***************************************************************************)
(* Two processes at the same time, each in insertData on its own           *)
(* connection (lines 179-209).  Oracle runs the block of one record as one *)
(* step of the session; what a session has written is locked and unseen by *)
(* the other until the session commits (autoCommit, when executeMany has   *)
(* done every record) or its connection is closed after a failure          *)
(* (lines 257-259), which rolls it back.  A block whose key the other      *)
(* session has written waits; when each waits for the other, Oracle makes  *)
(* the statement of one of them fail with ORA-00060.                       *)
(***************************************************************************)
SessionIds == {1, 2}

Other(i) == CHOOSE j \in SessionIds : j # i

\* What the two runs fetched: each run's records carry its own counts and
\* IsInternal, so that a row tells which run wrote it.
SessionRecords(i) ==
    {DataRecord(l, i - 1, "2020-01-05T10:00:00", IF i = 1 THEN <<1, 3>> ELSE <<2, 4>>) :
        l \in Locations}
    \cup {DataRecord("Back", i - 1, "n/a", <<1, 3>>)}

SessionBatches(i) == SeqsUpTo(SessionRecords(i), MaxBatch)

\* The tables the two runs may find: what an earlier run committed.
EarlierTables ==
    {CommittedRows({}, data) :
        data \in SeqsUpTo({DataRecord(l, 0, "2020-01-05T10:00:00", <<0, 0>>) : l \in Locations},
                          MaxBatch)}

InitSessions ==
    /\ clock = FirstInstant
    /\ store = <<>>
    /\ tableExists = TRUE
    /\ table \in EarlierTables
    /\ table0 = table
    /\ runs = 0
    /\ pc = "idle"
    /\ env = TRUE
    /\ argv = [from |-> <<>>, to |-> <<>>]
    /\ yesterday = yesterdayDateString(FirstInstant)
    /\ connection = "none"
    /\ work = table
    /\ previousRun = <<>>
    /\ runInfo = EmptyRunInfo
    /\ trafsysData = <<>>
    /\ appendStatus = "none"
    /\ thrown = "none"
    /\ reported = "none"
    /\ exitCode = 0
    /\ calls = NoCalls
    /\ store0 = <<>>
    /\ lastRun = [ran |-> FALSE, failed |-> FALSE, store0 |-> <<>>]
    /\ rejected = FALSE
    /\ firstWritten = NoKeys
    /\ lastApplied = NoKeys
    /\ \E d1 \in SessionBatches(1), d2 \in SessionBatches(2) :
          sessions = [i \in SessionIds |->
                         [data |-> IF i = 1 THEN d1 ELSE d2, done |-> 0,
                          state |-> "running", own |-> {}, error |-> "none"]]

\* The keys a session has written and not committed: its row locks.
Locked(s) == {PrimaryKey(row) : row \in s.own}

\* The table as a session sees it: the committed rows, with its own
\* uncommitted rows in place of those it has written.
View(s) == {row \in table : PrimaryKey(row) \notin Locked(s)} \cup s.own

\* The record executeMany is to run the block for next, as <<r>>, or <<>>.
NextRecord(s) ==
    IF s.state = "running" /\ s.done < Len(s.data) THEN <<s.data[s.done + 1]>> ELSE <<>>

\* Session i waits: the key of its next record is locked by the other.
Waiting(i) ==
    /\ NextRecord(sessions[i]) # <<>>
    /\ TO_DATE(NextRecord(sessions[i])[1].PeriodEnding) # InvalidDate
    /\ KeyOf(NextRecord(sessions[i])[1]) \in Locked(sessions[Other(i)])

\* The error a failed block raised.
BlockError(rows, r) ==
    IF TO_DATE(r.PeriodEnding) = InvalidDate THEN InvalidDate ELSE "ORA-00001"

SessionUnchanged ==
    UNCHANGED <<clock, store, tableExists, runs, pc, env, argv, yesterday, connection,
                work, previousRun, runInfo, trafsysData, appendStatus, thrown, reported,
                exitCode, calls, store0, lastRun, rejected, table0, firstWritten,
                lastApplied>>

\* executeMany of session i runs the block for its next record.
ExecuteBlock(i) ==
    LET s == sessions[i]
    IN  /\ NextRecord(s) # <<>>
        /\ ~Waiting(i)
        /\ LET r   == NextRecord(s)[1]
               res == PlsqlBlock(View(s), r)
           IN  sessions' =
                 [sessions EXCEPT ![i] =
                    IF res.ok
                    THEN [s EXCEPT !.done = @ + 1,
                                   !.own = {row \in res.rows :
                                               PrimaryKey(row) \in Locked(s) \cup {KeyOf(r)}}]
                    ELSE [s EXCEPT !.state = "failed", !.error = BlockError(View(s), r)]]
        /\ UNCHANGED table
        /\ SessionUnchanged

\* executeMany of session i has run every record: autoCommit commits.  (An
\* empty batch makes no call and has nothing to commit.)
Commit(i) ==
    LET s == sessions[i]
    IN  /\ s.state = "running"
        /\ s.done = Len(s.data)
        /\ table' = View(s)
        /\ sessions' = [sessions EXCEPT ![i] = [s EXCEPT !.state = "committed", !.own = {}]]
        /\ SessionUnchanged

\* Both sessions wait for each other: Oracle fails the statement of session i.
Deadlock(i) ==
    /\ Waiting(i)
    /\ Waiting(Other(i))
    /\ sessions' = [sessions EXCEPT ![i] = [@ EXCEPT !.state = "failed", !.error = "ORA-00060"]]
    /\ UNCHANGED table
    /\ SessionUnchanged

\* The run of session i has failed: finally closes the connection, which
\* rolls back what the session wrote.
CloseFailed(i) ==
    /\ sessions[i].state = "failed"
    /\ sessions' = [sessions EXCEPT ![i] = [@ EXCEPT !.state = "closed", !.own = {}]]
    /\ UNCHANGED table
    /\ SessionUnchanged

NextSessions ==
    \E i \in SessionIds : ExecuteBlock(i) \/ Commit(i) \/ Deadlock(i) \/ CloseFailed(i)

SpecSessions == InitSessions /\ [][NextSessions]_vars

(***************************************************************************)
(* Properties.                                                             *)
(***************************************************************************)

\* C1 -- Idempotent upsert: whatever rows the sink table holds and whatever
\* the batch, running insertData with the batch a second time leaves the
\* table exactly as the first run left it.
IdempotentUpsert ==
    \A data \in Batches :
        CommittedRows(CommittedRows(table, data), data) = CommittedRows(table, data)

\* C1 witness: the table is what a batch made of a non-empty table by
\* changing it, and the same batch again changes nothing.
IdempotentUpsertWitness ==
    \E data \in Batches :
        /\ table0 # {}
        /\ InsertDataResult(table0, data).ok
        /\ CommittedRows(table0, data) = table
        /\ table # table0
        /\ CommittedRows(table, data) = table

\* C2 -- After any sequence of batches the table holds at most one row per
\* (SiteCode, Location, PeriodEnding); the row's Ins and Outs are those of
\* the latest committed record with that key, and its IsInternal (like its
\* key) is still what the record that inserted the row wrote.
OneRowPerKeyLastWriteWins ==
    /\ \A r1 \in table, r2 \in table : PrimaryKey(r1) = PrimaryKey(r2) => r1 = r2
    /\ \A row \in table :
          LET first == firstWritten[PrimaryKey(row)]
              last  == lastApplied[PrimaryKey(row)]
          IN  /\ first # <<>> /\ last # <<>>
              /\ <<row.Ins, row.Outs>> = last
              /\ row.IsInternal = first[1]
    /\ \A k \in DbKeys : firstWritten[k] # <<>> => \E row \in table : PrimaryKey(row) = k
    /\ \A old \in table0 : \E row \in table :
          PrimaryKey(row) = PrimaryKey(old) /\ row.IsInternal = old.IsInternal

\* C2 witness: every key has its row, and the latest batch has overwritten
\* the counts of a row that was there before it.
OneRowPerKeyWitness ==
    /\ Cardinality(table) = Cardinality(DbKeys)
    /\ \E row \in table, old \in table0 :
          /\ PrimaryKey(row) = PrimaryKey(old)
          /\ row.Ins # old.Ins /\ row.Outs # old.Outs

\* getRunInfo() has returned: the run info carries its dates.
GotRunInfo == runInfo.ToDate # 0

\* The document appended last.
Latest(docs) == docs[Len(docs)]

TokenReuse ==
    (store0 # <<>> /\ Latest(store0).AccessTokenExpiresAt > clock + WiggleMinutes) =>
        /\ calls.auth = 0
        /\ pc # "getAccessToken"
        /\ (GotRunInfo /\ calls.reauth = 0) =>
              /\ runInfo.AccessToken = Latest(store0).AccessToken
              /\ runInfo.AccessTokenExpiresAt = Latest(store0).AccessTokenExpiresAt

\* C4 witness: the run is about to fetch with the stored token, which
\* expires more than five minutes from now.
TokenReuseWitness ==
    /\ pc = "fetch"
    /\ store0 # <<>>
    /\ Latest(store0).AccessTokenExpiresAt > clock + WiggleMinutes
    /\ runInfo.AccessToken = Latest(store0).AccessToken

\* C5 -- Token refresh inside the safety margin: when there is no stored run,
\* or the stored token expires less than five minutes from now (or has
\* expired), getRunInfo asks the token endpoint for a new token and does not
\* give the stored one.
FreshTokenInsideMargin ==
    (GotRunInfo /\ (store0 = <<>> \/ Latest(store0).AccessTokenExpiresAt < clock + WiggleMinutes)) =>
        /\ calls.auth = 1
        /\ store0 # <<>> => (calls.reauth = 0 => runInfo.AccessToken # Latest(store0).AccessToken)

\* C6 -- Single retry then fail: a run never fetches more than twice nor asks
\* for a new token after a 401 more than once; when both fetches answered
\* 401 it has waited once, re-authenticated once, fetched twice, is Failed
\* with that 401 reported, has written nothing and appends no RunState.
SingleRetryThenFail ==
    /\ calls.fetch <= 2 /\ calls.reauth <= 1 /\ calls.wait <= 1
    /\ calls.unauthorized = 2 =>
          /\ calls.fetch = 2 /\ calls.reauth = 1 /\ calls.wait = 1
          /\ pc \in {"closing", "exited"}
          /\ thrown = "Http401" /\ reported = "Http401"
          /\ calls.executeMany = 0 /\ calls.insert = 0
          /\ appendStatus = "none" /\ store = store0

\* C6 witness: the process has ended after two 401 answers.
SingleRetryThenFailWitness ==
    pc = "exited" /\ calls.unauthorized = 2 /\ calls.close = 1

EmptyBatchNoOp ==
    runInfo.Records = <<0>> =>
        /\ calls.executeMany = 0
        /\ work = table
        /\ thrown = "none"
        /\ pc # "insertData" =>
              /\ table = table0
              /\ calls.insert = 1 /\ appendStatus # "none"
              /\ appendStatus = "done" =>
                    /\ Len(store) = Len(store0) + 1
                    /\ Latest(store).Records = <<0>>
                    /\ SubSeq(store, 1, Len(store0)) = store0

\* C8 witness: a run that fetched nothing has ended with its RunState stored.
EmptyBatchNoOpWitness ==
    /\ pc = "exited" /\ runInfo.Records = <<0>>
    /\ appendStatus = "done" /\ exitCode = 0

\* C9 -- A failure of the RunState append is fatal and not silent: a run
\* whose append failed ends in Failed with the error reported.
StoreFailureIsFatal ==
    (pc = "exited" /\ appendStatus = "failed") => (thrown # "none" /\ reported # "none")

\* C10 -- Every run that ends in a fatal error reports it and exits with a
\* non-zero code; only a run whose RunState was stored exits with zero.
FatalErrorsExitNonZero ==
    pc = "exited" =>
        /\ (~env \/ thrown # "none" \/ rejected \/ appendStatus \in {"failed", "lost"}) =>
              (exitCode # 0 /\ (reported # "none" \/ rejected))
        /\ exitCode = 0 => appendStatus = "done"

SessionsOver == \A i \in SessionIds : sessions[i].state \in {"committed", "closed"}

\* The sessions that committed a record of key k.
Committers(k) ==
    {i \in SessionIds : sessions[i].state = "committed" /\ Positions(sessions[i].data, k) # {}}

\* C12 -- Concurrent upserts: however the per-record steps of two runs with
\* overlapping keys interleave, the table (and what each session sees of
\* it) never has two rows with one key, no run fails with the unique-key
\* error (a run fails only for a date of its own batch, or as the victim of
\* a deadlock), and once both are over each key written by a committed run
\* has the Ins and Outs of the last record of that key of one such run,
\* every other key being as before.
ConcurrentUpsertsSafe ==
    /\ \A r1 \in table, r2 \in table : PrimaryKey(r1) = PrimaryKey(r2) => r1 = r2
    /\ \A i \in SessionIds :
          /\ \A r1 \in View(sessions[i]), r2 \in View(sessions[i]) :
                PrimaryKey(r1) = PrimaryKey(r2) => r1 = r2
          /\ sessions[i].error \in {"none", InvalidDate, "ORA-00060"}
          /\ sessions[i].error = InvalidDate =>
                \E n \in 1..Len(sessions[i].data) :
                    TO_DATE(sessions[i].data[n].PeriodEnding) = InvalidDate
    /\ SessionsOver =>
          \A k \in DbKeys :
              IF Committers(k) = {}
              THEN {row \in table : PrimaryKey(row) = k} = {row \in table0 : PrimaryKey(row) = k}
              ELSE \E row \in table, i \in Committers(k) :
                      LET r == sessions[i].data[Max(Positions(sessions[i].data, k))]
                      IN  /\ PrimaryKey(row) = k
                          /\ <<row.Ins, row.Outs>> = <<r.Ins, r.Outs>>

\* C12 witness: both runs committed batches sharing the key of a row that
\* was there before; that row has the counts of run 2, while a row only
\* run 1 wrote has the counts of run 1.
ConcurrentUpsertsWitness ==
    /\ \A i \in SessionIds : sessions[i].state = "committed"
    /\ \E k \in DbKeys, row \in table, old \in table0 :
          /\ Committers(k) = SessionIds
          /\ PrimaryKey(row) = k /\ PrimaryKey(old) = k
          /\ <<row.Ins, row.Outs>> = <<2, 4>>
    /\ \E k \in DbKeys, row \in table :
          /\ Committers(k) = {1}
          /\ PrimaryKey(row) = k
          /\ <<row.Ins, row.Outs>> = <<1, 3>>

\* C13 -- Batch atomicity: after insertData has called the database, the
\* committed table is either the table before it with every record of the
\* batch applied (and the run has not failed), or exactly the table before
\* it, the run being Failed with the database error reported; once the
\* connection of the failed run is closed nothing the batch wrote is left.
BatchAllOrNothing ==
    calls.executeMany = 1 =>
        LET res == ExecuteMany(table0, trafsysData)
        IN  IF thrown = "none"
            THEN res.ok /\ table = res.rows
            ELSE /\ ~res.ok
                 /\ table = table0
                 /\ thrown = "DbError" /\ reported = "DbError"
                 /\ pc \in {"closing", "exited"}
                 /\ connection = "closed" => work = table0

\* C13 witness: the upsert has failed at its second record; the row its
\* first record wrote is in the open transaction, not in the table.
BatchAllOrNothingWitness ==
    /\ pc = "closing" /\ thrown = "DbError"
    /\ calls.executeMany = 1
    /\ work # table /\ table = table0

FirstSent == calls.sent[1]
SecondSent == calls.sent[2]

\* C15 -- Recovery from a 401: the run waits before it asks for the new
\* token, asks for it whatever token it holds, and only then fetches again,
\* once, with the new token and the dates of the first request; a second
\* fetch is never made without the wait and the new token before it.
UnauthorizedRecoveryOrder ==
    /\ calls.reauth <= calls.wait /\ calls.wait <= 1
    /\ calls.wait = 1 => (calls.fetch >= 1 /\ FirstSent.answer = "Http401")
    /\ pc = "waitASecond" => (calls.wait = 0 /\ calls.reauth = 0 /\ calls.fetch = 1)
    /\ pc = "reauth" => (calls.wait = 1 /\ calls.reauth = 0 /\ calls.fetch = 1)
    /\ pc = "retryFetch" =>
          /\ calls.wait = 1 /\ calls.reauth = 1 /\ calls.fetch = 1
          /\ runInfo.AccessToken # FirstSent.AccessToken
    /\ Len(calls.sent) = calls.fetch /\ calls.fetch <= 2
    /\ calls.fetch = 2 =>
          /\ calls.wait = 1 /\ calls.reauth = 1
          /\ FirstSent.answer = "Http401"
          /\ SecondSent.AccessToken # FirstSent.AccessToken
          /\ SecondSent.AccessToken = runInfo.AccessToken
          /\ SecondSent.DateFrom = FirstSent.DateFrom
          /\ SecondSent.DateTo = FirstSent.DateTo

\* C15 witness: the run had a stored token that was still good for more
\* than five minutes, got a 401 with it, and its second fetch, with the new
\* token, was answered.
UnauthorizedRecoveryWitness ==
    /\ pc = "insertData" /\ calls.fetch = 2
    /\ calls.auth = 0 /\ calls.reauth = 1 /\ calls.wait = 1
    /\ store0 # <<>>
    /\ Latest(store0).AccessTokenExpiresAt > clock + WiggleMinutes
    /\ FirstSent.AccessToken = Latest(store0).AccessToken
    /\ SecondSent.answer = "ok"

\* C16 -- Only a 401 starts the recovery: when the first fetch failed with
\* anything else (no HTTP response at all, another 4xx, a 5xx, a body that
\* is no list), the run makes no wait, asks for no token, fetches no second
\* time, writes nothing to the table, appends no RunState and is Failed
\* with an error reported.
OnlyUnauthorizedRecovers ==
    (calls.fetch >= 1 /\ FirstSent.answer \notin {"ok", "Http401"}) =>
        /\ calls.fetch = 1 /\ calls.wait = 0 /\ calls.reauth = 0
        /\ calls.executeMany = 0 /\ calls.insert = 0
        /\ appendStatus = "none" /\ store = store0
        /\ work = table
        /\ thrown = FirstSent.answer /\ reported # "none"
        /\ pc \in {"closing", "exited"}

\* C16 witness: the first fetch of a run got no HTTP response and the
\* process has ended, the stored runs being those it found.
OnlyUnauthorizedRecoversWitness ==
    /\ pc = "exited" /\ calls.fetch = 1
    /\ FirstSent.answer = "NetworkError"
    /\ store # <<>> /\ store = store0
    /\ calls.close = 1

\* C17 -- The error reported for a first fetch that failed with anything
\* but a 401, a failure without HTTP response included, is the error the
\* fetch raised.
FetchErrorReportedUnchanged ==
    (calls.fetch >= 1 /\ FirstSent.answer \notin {"ok", "Http401"}) =>
        reported = FirstSent.answer

\* The fetch request made last.
LastSent == calls.sent[Len(calls.sent)]

\* C18 -- The RunState of a committed run: a process appends at most one
\* document, and none unless its upsert succeeded and it handed its RunState
\* to the datastore once.  The document appended has the token and expiry
\* of the request that was answered (the new token of the 401 path when
\* that was taken, else the token getRunInfo gave: the stored one, or a new
\* one), the dates of that request, and as Records the number of records
\* fetched and handed to insertData.  No step changes or removes a document
\* already stored.
CommittedRunState ==
    /\ [](/\ calls.insert <= 1
          /\ appendStatus # "done" => store = store0
          /\ appendStatus = "done" =>
                /\ Len(store) = Len(store0) + 1
                /\ SubSeq(store, 1, Len(store0)) = store0
                /\ calls.insert = 1 /\ thrown = "none"
                /\ InsertDataResult(table0, trafsysData).ok
                /\ table = InsertDataResult(table0, trafsysData).rows
                /\ LastSent.answer = "ok"
                /\ Latest(store).AccessToken = LastSent.AccessToken
                /\ Latest(store).AccessTokenExpiresAt = runInfo.AccessTokenExpiresAt
                /\ Latest(store).FromDate = LastSent.DateFrom
                /\ Latest(store).ToDate = LastSent.DateTo
                /\ Latest(store).Records = <<Len(trafsysData)>>
                /\ IF calls.reauth = 1 \/ calls.auth = 1
                   THEN /\ Latest(store).AccessToken =
                              TokenResponse(runs, calls, clock, 0).access_token
                        /\ \E life \in Lifetimes :
                              Latest(store).AccessTokenExpiresAt = clock + life
                        /\ store0 # <<>> =>
                              Latest(store).AccessToken # Latest(store0).AccessToken
                   ELSE /\ store0 # <<>>
                        /\ Latest(store).AccessToken = Latest(store0).AccessToken
                        /\ Latest(store).AccessTokenExpiresAt =
                              Latest(store0).AccessTokenExpiresAt)
    /\ [][/\ Len(store') >= Len(store)
          /\ SubSeq(store', 1, Len(store)) = store]_vars

\* C18 witness: the second run took the 401 path, fetched two records with
\* the new token, upserted them, and its RunState is stored after the
\* first run's.
CommittedRunStateWitness ==
    /\ pc = "exited" /\ appendStatus = "done"
    /\ Len(store) = 2 /\ calls.reauth = 1
    /\ Latest(store).Records = <<2>>
    /\ Latest(store).AccessToken # store[1].AccessToken

\* C19 -- Guaranteed release: a process asks for a connection at most once
\* and closes at most once; a connection it has got is open exactly while
\* run() is between getConnection and the close in finally, the process
\* never ends or goes on to another database call with it open or after it
\* is closed, and on every path an open connection is closed in the end.
GuaranteedRelease ==
    /\ [](/\ calls.getConnection <= 1 /\ calls.close <= 1
          /\ connection = "none" =>
                /\ calls.close = 0
                /\ pc \in {"idle", "getConnection", "exited"}
                /\ calls.executeMany = 0
          /\ connection = "open" =>
                /\ calls.getConnection = 1 /\ calls.close = 0
                /\ pc \in {"ensureTableExists", "findPrevious", "getAccessToken", "fetch",
                            "waitASecond", "reauth", "retryFetch", "insertData", "closing"}
          /\ connection = "closed" =>
                /\ calls.getConnection = 1 /\ calls.close = 1
                /\ pc \in {"draining", "exited"}
                /\ work = table)
    /\ (connection = "open") ~> (connection = "closed")

\* C19 witness: a run whose second fetch was answered 401 as well has ended
\* with its connection closed.
GuaranteedReleaseWitness ==
    /\ pc = "exited" /\ connection = "closed"
    /\ calls.getConnection = 1 /\ calls.close = 1
    /\ thrown = "Http401" /\ calls.fetch = 2

\* The positions of run() at which an awaited call is in flight.
AwaitingIO ==
    pc \in {"getConnection", "ensureTableExists", "findPrevious", "getAccessToken", "fetch",
            "reauth", "retryFetch", "insertData", "closing"}

\* C20 -- Sequential I/O: at no point of a run are two operations in
\* flight; the append of the RunState is over (stored, or failed) before
\* connection.close() starts, so it is never pending while run() awaits a
\* call or after the close.
SequentialIO ==
    /\ AwaitingIO => appendStatus # "pending"
    /\ calls.close = 1 => appendStatus \in {"none", "done", "failed"}

====
